---- MODULE Spec2Model ----
(***************************************************************************)
(* Model of Project1/main.go: the four CPU scheduling policies             *)
(* (FCFSSchedule, SJFSchedule, SJFPrioritySchedule, RRSchedule), the       *)
(* process list they share with their caller, and the report each hands   *)
(* to outputGantt / outputSchedule.                                        *)
(*                                                                         *)
(* One action per call, per loop iteration and per return.  A policy is    *)
(* entered either from main (lines 32-38, in that order, quantum 2) or     *)
(* directly on the loaded list, as a test of the exported function does.   *)
(*                                                                         *)
(* float64 accumulators only ever hold sums of small integers, so they are *)
(* modelled as integers; a float64 quotient is kept as the pair            *)
(* <<numerator, denominator>>.  A formatted number is the pair             *)
(* <<format, value>>: "d" for decimal integer text, "f2" for fixed-point   *)
(* text with two fraction digits.                                          *)
(***************************************************************************)
EXTENDS Integers, Sequences, FiniteSets, TLC

\* ---------------------------------------------------------------- bounds
MaxN == 3
MaxArrival == 2
MaxBurst == 2
MaxPriority == 1
MaxQuantum == 2
MaxLiveN == 2

\* -------------------------------------------------------- program constants
MainQuantum == 2

VARIABLES
  input,              \* what loadProcesses returned (never written again)
  processes,          \* the caller's slice, shared by every policy call
  passed,             \* the contents of that slice when the policy was called
  entry,              \* "main" or the policy called directly
  policy,             \* the policy being (or about to be) executed
  pc,                 \* "call", "loop", "returned"
  quantum,            \* RRSchedule's quantum parameter
  i,                  \* FCFSSchedule: loop index (0-based)
  serviceTime,        \* FCFSSchedule
  waitingTime,        \* FCFSSchedule
  totalWait,          \* FCFSSchedule
  totalTurnaround,    \* FCFSSchedule
  lastCompletion,     \* FCFSSchedule
  currTime,           \* SJFSchedule, SJFPrioritySchedule
  waitTime,           \* SJFSchedule, SJFPrioritySchedule
  turn,               \* SJFSchedule, SJFPrioritySchedule, RRSchedule
  remainingProcesses, \* SJFSchedule, SJFPrioritySchedule
  queue,              \* RRSchedule
  elapsed,            \* RRSchedule
  wait,               \* RRSchedule
  gantt,              \* every policy
  schedule,           \* every policy
  sink                \* reports handed to outputGantt/outputSchedule, in order

vars == <<input, processes, passed, entry, policy, pc, quantum, i, serviceTime,
          waitingTime, totalWait, totalTurnaround, lastCompletion, currTime,
          waitTime, turn, remainingProcesses, queue, elapsed, wait, gantt,
          schedule, sink>>

fcfsLocals == <<i, serviceTime, waitingTime, totalWait, totalTurnaround,
                lastCompletion>>
sjfLocals == <<currTime, waitTime, remainingProcesses>>
rrLocals == <<queue, elapsed, wait, quantum>>

\* ------------------------------------------------------------ data model
Process(id, arrival, burst, priority) ==
  [ProcessID |-> id, ArrivalTime |-> arrival, BurstDuration |-> burst,
   Priority |-> priority]

TimeSlice(pid, start, stop) == [PID |-> pid, Start |-> start, Stop |-> stop]

Policies == {"FCFS", "SJF", "SJFPriority", "RR"}

\* main calls the policies in this order.
MainOrder == <<"FCFS", "SJF", "SJFPriority", "RR">>

\* ---------------------------------------------------------- formatting
\* fmt.Sprint(int64) and strconv.FormatInt(v, 10): decimal integer text.
FormatInt(v) == <<"d", v>>

\* strconv.FormatFloat(float64(v), 'f', 2, 64) and fmt.Sprintf("%.2f", v).
FormatFloat(v) == <<"f2", v>>

\* The zero value of a []string row, as left by make([][]string, n).
NilRow == <<>>

\* make([][]string, n)
MakeSchedule(n) == [k \in 1..n |-> NilRow]

\* ------------------------------------------------------------- helpers
min_max(a, b) == IF a < b THEN b ELSE a

min(a, b) == IF a < b THEN a ELSE b

priorityPenalty_wrong(p) == p.Priority * 5

priorityPenalty(p) == (p.Priority - 1) * 5

\* The comparison functions passed to sort.Slice.
Less(kind, a, b) ==
  IF kind = "arrival"
  THEN a.ArrivalTime < b.ArrivalTime
  ELSE IF a.ArrivalTime # b.ArrivalTime THEN a.ArrivalTime < b.ArrivalTime
       ELSE IF a.Priority # b.Priority THEN a.Priority < b.Priority
       ELSE a.BurstDuration < b.BurstDuration

\* sort.Slice sorts a slice as short as the ones modelled here by plain
\* insertion sort.  One pass of it: x moves left past every element it is
\* less than, and stops at the first one it is not less than.
Insert(sorted, x, kind) ==
  LET n == Len(sorted)
      stops == {j \in 1..n : ~Less(kind, x, sorted[j])}
      k == IF stops = {} THEN 0 ELSE CHOOSE j \in stops : \A m \in stops : m <= j
  IN SubSeq(sorted, 1, k) \o <<x>> \o SubSeq(sorted, k + 1, n)

RECURSIVE SortSlice(_, _)
SortSlice(s, kind) ==
  IF Len(s) = 0 THEN <<>>
  ELSE Insert(SortSlice(SubSeq(s, 1, Len(s) - 1), kind), s[Len(s)], kind)

\* append(s[:k], s[k+1:]...), k 1-based.
RemoveAt(s, k) == SubSeq(s, 1, k - 1) \o SubSeq(s, k + 1, Len(s))

\* What a pointer &s[k] taken before append(s[:r], s[r+1:]...) reads after
\* it: the append shifts the tail left inside the same backing array, so
\* every slot from r on holds its old right neighbour; the last slot is left
\* as it was.
SlotAfterRemove(s, r, k) ==
  IF k < r THEN s[k] ELSE IF k < Len(s) THEN s[k + 1] ELSE s[k]

\* ------------------------------------------------------------- inputs
FieldSets == (0..MaxArrival) \X (1..MaxBurst) \X (0..MaxPriority)

BoundedInputs ==
  UNION {{[k \in 1..n |-> Process(k, f[k][1], f[k][2], f[k][3])] :
            f \in [1..n -> FieldSets]} : n \in 0..MaxN}

FCFSFixture == <<Process(1, 0, 24, 0), Process(2, 0, 3, 0), Process(3, 0, 3, 0)>>
SJFFixture == <<Process(1, 2, 6, 0), Process(2, 0, 8, 0), Process(3, 4, 7, 0),
                Process(4, 6, 3, 0)>>
RRFixture == <<Process(1, 0, 5, 0), Process(2, 0, 3, 0)>>

\* A long job at 0 and a short one arriving while it runs.
LongShortFixture == <<Process(1, 0, 3, 0), Process(2, 1, 1, 0)>>

Fixtures == {FCFSFixture, SJFFixture, RRFixture, LongShortFixture}

Inputs == BoundedInputs \cup Fixtures

\* -------------------------------------------------------------- Init
Init ==
  /\ input \in Inputs
  /\ processes = input
  /\ passed = <<>>
  /\ entry \in {"main"} \cup Policies
  /\ policy = IF entry = "main" THEN MainOrder[1] ELSE entry
  /\ pc = "call"
  /\ quantum = 0
  /\ i = 0
  /\ serviceTime = 0
  /\ waitingTime = 0
  /\ totalWait = 0
  /\ totalTurnaround = 0
  /\ lastCompletion = 0
  /\ currTime = 0
  /\ waitTime = 0
  /\ turn = 0
  /\ remainingProcesses = <<>>
  /\ queue = <<>>
  /\ elapsed = 0
  /\ wait = 0
  /\ gantt = <<>>
  /\ schedule = <<>>
  /\ sink = <<>>

\* The report a policy hands to outputTitle, outputGantt and outputSchedule.
Report(title, g, rows, w, t, tp) ==
  [title |-> title, gantt |-> g, rows |-> rows, wait |-> w, turnaround |-> t,
   throughput |-> tp]

\* ------------------------------------------------------ FCFSSchedule
FCFSCall ==
  /\ pc = "call" /\ policy = "FCFS"
  /\ passed' = processes
  /\ i' = 0
  /\ serviceTime' = 0
  /\ totalWait' = 0
  /\ totalTurnaround' = 0
  /\ lastCompletion' = 0
  /\ waitingTime' = 0
  /\ schedule' = MakeSchedule(Len(processes))
  /\ gantt' = <<>>
  /\ pc' = "loop"
  /\ UNCHANGED <<input, processes, entry, policy, sjfLocals, turn, rrLocals, sink>>

FCFSIterate ==
  /\ pc = "loop" /\ policy = "FCFS"
  /\ i < Len(processes)
  /\ LET p == processes[i + 1]
         w == IF p.ArrivalTime > 0 THEN serviceTime - p.ArrivalTime
              ELSE waitingTime
         start == w + p.ArrivalTime
         turnaround == p.BurstDuration + w
         completion == p.BurstDuration + p.ArrivalTime + w
     IN /\ waitingTime' = w
        /\ totalWait' = totalWait + w
        /\ totalTurnaround' = totalTurnaround + turnaround
        /\ lastCompletion' = completion
        /\ schedule' = [schedule EXCEPT ![i + 1] =
             <<FormatInt(p.ProcessID), FormatInt(p.Priority),
               FormatInt(p.BurstDuration), FormatInt(p.ArrivalTime),
               FormatInt(w), FormatInt(turnaround), FormatInt(completion)>>]
        /\ serviceTime' = serviceTime + p.BurstDuration
        /\ gantt' = Append(gantt, TimeSlice(p.ProcessID, start, serviceTime'))
  /\ i' = i + 1
  /\ UNCHANGED <<input, passed, processes, entry, policy, pc, sjfLocals, turn, rrLocals, sink>>

FCFSOutput ==
  /\ pc = "loop" /\ policy = "FCFS"
  /\ i >= Len(processes)
  /\ LET count == Len(processes)
     IN sink' = Append(sink, Report("FCFS", gantt, schedule,
                  <<totalWait, count>>, <<totalTurnaround, count>>,
                  <<count, lastCompletion>>))
  /\ pc' = "returned"
  /\ UNCHANGED <<input, passed, processes, entry, policy, fcfsLocals, sjfLocals, turn,
                 rrLocals, gantt, schedule>>

\* ------------------------------------------------------- SJFSchedule
\* The row SJFSchedule, SJFPrioritySchedule append for the selected process.
SJFRow(p, clock) ==
  <<FormatInt(p.ProcessID), FormatInt(p.Priority), FormatInt(p.BurstDuration),
    FormatInt(p.ArrivalTime), FormatFloat(clock - p.ArrivalTime),
    FormatFloat(clock + p.BurstDuration - p.ArrivalTime),
    FormatInt(clock + p.BurstDuration)>>

TurnDelta_plain(p, clock, waitTotal) ==
  clock + p.BurstDuration - p.ArrivalTime

\* Lines 245 and 179: what one dispatch adds to turn; waitTotal is waitTime
\* after line 244 (178) has added this process's own wait.
TurnDelta(p, clock, waitTotal) ==
  (clock + p.BurstDuration - p.ArrivalTime) - waitTotal

SJFCall ==
  /\ pc = "call" /\ policy = "SJF"
  /\ passed' = processes
  /\ processes' = SortSlice(processes, "arrival")
  /\ currTime' = 0
  /\ waitTime' = 0
  /\ turn' = 0
  /\ gantt' = <<>>
  /\ schedule' = MakeSchedule(Len(processes))
  /\ remainingProcesses' = processes'
  /\ pc' = "loop"
  /\ UNCHANGED <<input, entry, policy, fcfsLocals, rrLocals, sink>>

\* A mutant: ties on burst go to the last candidate, not the first.
ShortestIndex_lastTie(rem) ==
  CHOOSE k \in 1..Len(rem) :
    /\ \A m \in 1..Len(rem) : rem[k].BurstDuration <= rem[m].BurstDuration
    /\ \A m \in (k + 1)..Len(rem) : rem[k].BurstDuration < rem[m].BurstDuration

\* The scan of lines 226-231: the first index holding the minimum burst.
ShortestIndex(rem) ==
  CHOOSE k \in 1..Len(rem) :
    /\ \A m \in 1..Len(rem) : rem[k].BurstDuration <= rem[m].BurstDuration
    /\ \A m \in 1..(k - 1) : rem[k].BurstDuration < rem[m].BurstDuration

SJFIterate ==
  /\ pc = "loop" /\ policy = "SJF"
  /\ Len(remainingProcesses) > 0
  /\ LET shortestIndex == ShortestIndex(remainingProcesses)
         shortest == remainingProcesses[shortestIndex]
         clock == IF shortest.ArrivalTime > currTime THEN shortest.ArrivalTime
                  ELSE currTime
     IN /\ gantt' = Append(gantt, TimeSlice(shortest.ProcessID, clock,
                                            clock + shortest.BurstDuration))
        /\ waitTime' = waitTime + (clock - shortest.ArrivalTime)
        /\ turn' = turn + TurnDelta(shortest, clock, waitTime')
        /\ schedule' = Append(schedule, SJFRow(shortest, clock))
        /\ remainingProcesses' = RemoveAt(remainingProcesses, shortestIndex)
        /\ currTime' = clock
             + SlotAfterRemove(remainingProcesses, shortestIndex,
                               shortestIndex).BurstDuration
  /\ UNCHANGED <<input, passed, processes, entry, policy, pc, fcfsLocals, rrLocals, sink>>

\* Lines 202-206 and 262-266.
SJFReport(title) ==
  Report(title, gantt, schedule, <<waitTime, Len(processes)>>,
         <<turn, Len(processes)>>, <<Len(processes), currTime>>)

SJFOutput ==
  /\ pc = "loop" /\ policy = "SJF"
  /\ Len(remainingProcesses) = 0
  /\ sink' = Append(sink, SJFReport("SJF"))
  /\ pc' = "returned"
  /\ UNCHANGED <<input, passed, processes, entry, policy, fcfsLocals, sjfLocals, turn,
                 rrLocals, gantt, schedule>>

\* ----------------------------------------------- SJFPrioritySchedule
\* A mutant: turn keeps what the previous policy left in it.
SJFPriorityCall_staleTurn ==
  /\ pc = "call" /\ policy = "SJFPriority"
  /\ passed' = processes
  /\ processes' = SortSlice(processes, "priority")
  /\ currTime' = 0
  /\ waitTime' = 0
  /\ turn' = turn
  /\ gantt' = <<>>
  /\ schedule' = MakeSchedule(Len(processes))
  /\ remainingProcesses' = processes'
  /\ pc' = "loop"
  /\ UNCHANGED <<input, entry, policy, fcfsLocals, rrLocals, sink>>

SJFPriorityCall ==
  /\ pc = "call" /\ policy = "SJFPriority"
  /\ passed' = processes
  /\ processes' = SortSlice(processes, "priority")
  /\ currTime' = 0
  /\ waitTime' = 0
  /\ turn' = 0
  /\ gantt' = <<>>
  /\ schedule' = MakeSchedule(Len(processes))
  /\ remainingProcesses' = processes'
  /\ pc' = "loop"
  /\ UNCHANGED <<input, entry, policy, fcfsLocals, rrLocals, sink>>

Eligible_noGate(p, clock) == TRUE

Eligible_early(p, clock) == p.ArrivalTime <= clock + 1

\* Line 156: the arrival gate of the selection scan.
Eligible(p, clock) == p.ArrivalTime <= clock

Better_burstOnly(a, b) == a.BurstDuration < b.BurstDuration

\* Line 157: candidate a replaces the current choice b.
Better(a, b) ==
  \/ a.BurstDuration < b.BurstDuration
  \/ (a.BurstDuration = b.BurstDuration /\ a.Priority < b.Priority)

\* Lines 154-161: the scan from index k on, with the current choice `best`
\* (0 stands for the nil pointer).  The result is the index shortest points to.
RECURSIVE SelectShortest(_, _, _, _)
SelectShortest(rem, clock, k, best) ==
  IF k > Len(rem) THEN best
  ELSE IF Eligible(rem[k], clock) /\ (best = 0 \/ Better(rem[k], rem[best]))
       THEN SelectShortest(rem, clock, k + 1, k)
       ELSE SelectShortest(rem, clock, k + 1, best)

NextArrivalTime_tick(rem, clock) == clock + 1

NextArrivalTime_stuck(rem, clock) == clock

\* Lines 164-169: the scan for the next arrival, folded from index k on.
RECURSIVE NextArrivalScan(_, _, _, _)
NextArrivalScan(rem, clock, k, next) ==
  IF k > Len(rem) THEN next
  ELSE IF rem[k].ArrivalTime > clock /\ rem[k].ArrivalTime < next
       THEN NextArrivalScan(rem, clock, k + 1, rem[k].ArrivalTime)
       ELSE NextArrivalScan(rem, clock, k + 1, next)

NextArrivalTime(rem, clock) == NextArrivalScan(rem, clock, 1, rem[1].ArrivalTime)

\* Lines 191-196: the first index whose ProcessID is that of rem[k].
FirstWithID(rem, k) ==
  CHOOSE r \in 1..Len(rem) :
    /\ rem[r].ProcessID = rem[k].ProcessID
    /\ \A m \in 1..(r - 1) : rem[m].ProcessID # rem[k].ProcessID

\* Lines 163-170: no process is eligible.
SJFPriorityIdle ==
  /\ pc = "loop" /\ policy = "SJFPriority"
  /\ Len(remainingProcesses) > 0
  /\ SelectShortest(remainingProcesses, currTime, 1, 0) = 0
  /\ currTime' = NextArrivalTime(remainingProcesses, currTime)
  /\ UNCHANGED <<input, passed, processes, entry, policy, pc, fcfsLocals, rrLocals,
                 waitTime, turn, remainingProcesses, gantt, schedule, sink>>

\* Lines 171-199: a process is selected and run to completion.
SJFPriorityDispatch ==
  /\ pc = "loop" /\ policy = "SJFPriority"
  /\ Len(remainingProcesses) > 0
  /\ LET k == SelectShortest(remainingProcesses, currTime, 1, 0)
     IN /\ k # 0
        /\ LET shortest == remainingProcesses[k]
               r == FirstWithID(remainingProcesses, k)
           IN /\ gantt' = Append(gantt, TimeSlice(shortest.ProcessID, currTime,
                                           currTime + shortest.BurstDuration))
              /\ waitTime' = waitTime + (currTime - shortest.ArrivalTime)
              /\ turn' = turn + TurnDelta(shortest, currTime, waitTime')
              /\ schedule' = Append(schedule, SJFRow(shortest, currTime))
              /\ remainingProcesses' = RemoveAt(remainingProcesses, r)
              /\ currTime' = currTime
                   + SlotAfterRemove(remainingProcesses, r, k).BurstDuration
  /\ UNCHANGED <<input, passed, processes, entry, policy, pc, fcfsLocals, rrLocals, sink>>

SJFPriorityOutput ==
  /\ pc = "loop" /\ policy = "SJFPriority"
  /\ Len(remainingProcesses) = 0
  /\ sink' = Append(sink, SJFReport("SJFPriority"))
  /\ pc' = "returned"
  /\ UNCHANGED <<input, passed, processes, entry, policy, fcfsLocals, sjfLocals, turn,
                 rrLocals, gantt, schedule>>

\* -------------------------------------------------------- RRSchedule
RRCall ==
  /\ pc = "call" /\ policy = "RR"
  /\ passed' = processes
  /\ \E q \in 1..MaxQuantum :
       /\ entry = "main" => q = MainQuantum
       /\ quantum' = q
  /\ processes' = SortSlice(processes, "arrival")
  /\ gantt' = <<>>
  /\ schedule' = MakeSchedule(Len(processes))
  /\ wait' = 0
  /\ turn' = 0
  /\ elapsed' = 0
  /\ queue' = processes'
  /\ pc' = "loop"
  /\ UNCHANGED <<input, entry, policy, fcfsLocals, sjfLocals, sink>>

\* Lines 305-313: the row appended for a finished process p.
RRRow(p, w, t, clock) ==
  <<FormatInt(p.ProcessID), FormatInt(p.Priority), FormatInt(p.BurstDuration),
    FormatInt(p.ArrivalTime), FormatFloat(w), FormatFloat(t), FormatInt(clock)>>

RRIterate ==
  /\ pc = "loop" /\ policy = "RR"
  /\ Len(queue) > 0
  /\ LET p0 == Head(queue)
         ran == min(p0.BurstDuration, quantum)
         p == [p0 EXCEPT !.BurstDuration = p0.BurstDuration - ran]
     IN /\ gantt' = Append(gantt, TimeSlice(p0.ProcessID, elapsed, elapsed + ran))
        /\ elapsed' = elapsed + ran
        /\ IF p.BurstDuration > 0
           THEN /\ queue' = Append(Tail(queue), p)
                /\ UNCHANGED <<wait, turn, schedule>>
           ELSE LET w == elapsed' - p.ArrivalTime - priorityPenalty(p)
                    t == elapsed' - p.ArrivalTime
                IN /\ queue' = Tail(queue)
                   /\ wait' = wait + w
                   /\ turn' = turn + t
                   /\ schedule' = Append(schedule, RRRow(p, w, t, elapsed'))
  /\ UNCHANGED <<input, passed, processes, entry, policy, pc, quantum, fcfsLocals,
                 sjfLocals, sink>>

RROutput ==
  /\ pc = "loop" /\ policy = "RR"
  /\ Len(queue) = 0
  /\ sink' = Append(sink, Report("RR", gantt, schedule,
                <<wait, Len(processes)>>, <<turn, Len(processes)>>,
                <<Len(processes), elapsed>>))
  /\ pc' = "returned"
  /\ UNCHANGED <<input, passed, processes, entry, policy, fcfsLocals, sjfLocals, turn,
                 rrLocals, gantt, schedule>>

\* -------------------------------------------------------------- main
\* Lines 32-38: the next policy is called on the same slice.
MainAdvance ==
  /\ pc = "returned" /\ entry = "main"
  /\ \E k \in 1..(Len(MainOrder) - 1) :
       /\ policy = MainOrder[k]
       /\ policy' = MainOrder[k + 1]
  /\ pc' = "call"
  /\ UNCHANGED <<input, passed, processes, entry, fcfsLocals, sjfLocals, turn, rrLocals,
                 gantt, schedule, sink>>

Next ==
  \/ FCFSCall \/ FCFSIterate \/ FCFSOutput
  \/ SJFCall \/ SJFIterate \/ SJFOutput
  \/ SJFPriorityCall \/ SJFPriorityIdle \/ SJFPriorityDispatch \/ SJFPriorityOutput
  \/ RRCall \/ RRIterate \/ RROutput
  \/ MainAdvance

Spec == Init /\ [][Next]_vars

\* The runs whose list has at most MaxLiveN processes, and the fixtures.
InitLive == Init /\ (Len(input) <= MaxLiveN \/ input \in Fixtures)

\* The loops run to their end: the program is single-threaded and nothing
\* blocks, so a step that can be taken is taken.
FairSpec == InitLive /\ [][Next]_vars /\ WF_vars(Next)

\* ------------------------------------------- a policy as one function
\* Each policy run from its first line to its last on its own copy of a
\* list: the report it hands to the sink as a function of its arguments.

RECURSIVE FCFSLoop(_, _, _)
FCFSLoop(list, k, st) ==
  IF k > Len(list) THEN st
  ELSE LET p == list[k]
           w == IF p.ArrivalTime > 0 THEN st.serviceTime - p.ArrivalTime
                ELSE st.waitingTime
           start == w + p.ArrivalTime
           turnaround == p.BurstDuration + w
           completion == p.BurstDuration + p.ArrivalTime + w
           service == st.serviceTime + p.BurstDuration
       IN FCFSLoop(list, k + 1,
            [serviceTime |-> service,
             waitingTime |-> w,
             totalWait |-> st.totalWait + w,
             totalTurnaround |-> st.totalTurnaround + turnaround,
             lastCompletion |-> completion,
             schedule |-> [st.schedule EXCEPT ![k] =
               <<FormatInt(p.ProcessID), FormatInt(p.Priority),
                 FormatInt(p.BurstDuration), FormatInt(p.ArrivalTime),
                 FormatInt(w), FormatInt(turnaround), FormatInt(completion)>>],
             gantt |-> Append(st.gantt, TimeSlice(p.ProcessID, start, service))])

FCFSRun(list) ==
  LET st == FCFSLoop(list, 1,
              [serviceTime |-> 0, waitingTime |-> 0, totalWait |-> 0,
               totalTurnaround |-> 0, lastCompletion |-> 0,
               schedule |-> MakeSchedule(Len(list)), gantt |-> <<>>])
      count == Len(list)
  IN Report("FCFS", st.gantt, st.schedule, <<st.totalWait, count>>,
            <<st.totalTurnaround, count>>, <<count, st.lastCompletion>>)

\* The locals of SJFSchedule and SJFPrioritySchedule before the loop.
SJFStart(list) ==
  [currTime |-> 0, waitTime |-> 0, turn |-> 0, gantt |-> <<>>,
   schedule |-> MakeSchedule(Len(list))]

\* The locals after dispatching rem[k] at clock, rem[r] being removed.
SJFDispatched(rem, k, r, clock, st) ==
  LET shortest == rem[k]
      waitTotal == st.waitTime + (clock - shortest.ArrivalTime)
  IN [currTime |-> clock + SlotAfterRemove(rem, r, k).BurstDuration,
      waitTime |-> waitTotal,
      turn |-> st.turn + TurnDelta(shortest, clock, waitTotal),
      gantt |-> Append(st.gantt, TimeSlice(shortest.ProcessID, clock,
                                           clock + shortest.BurstDuration)),
      schedule |-> Append(st.schedule, SJFRow(shortest, clock))]

SJFFinal(title, list, st) ==
  Report(title, st.gantt, st.schedule, <<st.waitTime, Len(list)>>,
         <<st.turn, Len(list)>>, <<Len(list), st.currTime>>)

RECURSIVE SJFLoop(_, _)
SJFLoop(rem, st) ==
  IF Len(rem) = 0 THEN st
  ELSE LET k == ShortestIndex(rem)
           clock == IF rem[k].ArrivalTime > st.currTime THEN rem[k].ArrivalTime
                    ELSE st.currTime
       IN SJFLoop(RemoveAt(rem, k), SJFDispatched(rem, k, k, clock, st))

SJFRun(list) ==
  LET sorted == SortSlice(list, "arrival")
  IN SJFFinal("SJF", sorted, SJFLoop(sorted, SJFStart(sorted)))

RECURSIVE SJFPriorityLoop(_, _)
SJFPriorityLoop(rem, st) ==
  IF Len(rem) = 0 THEN st
  ELSE LET k == SelectShortest(rem, st.currTime, 1, 0)
       IN IF k = 0
          THEN SJFPriorityLoop(rem,
                 [st EXCEPT !.currTime = NextArrivalTime(rem, st.currTime)])
          ELSE LET r == FirstWithID(rem, k)
               IN SJFPriorityLoop(RemoveAt(rem, r),
                    SJFDispatched(rem, k, r, st.currTime, st))

SJFPriorityRun(list) ==
  LET sorted == SortSlice(list, "priority")
  IN SJFFinal("SJFPriority", sorted, SJFPriorityLoop(sorted, SJFStart(sorted)))

RECURSIVE RRLoop(_, _, _)
RRLoop(q, quant, st) ==
  IF Len(q) = 0 THEN st
  ELSE LET p0 == Head(q)
           ran == min(p0.BurstDuration, quant)
           p == [p0 EXCEPT !.BurstDuration = p0.BurstDuration - ran]
           clock == st.elapsed + ran
           g == Append(st.gantt, TimeSlice(p0.ProcessID, st.elapsed, clock))
       IN IF p.BurstDuration > 0
          THEN RRLoop(Append(Tail(q), p), quant,
                      [st EXCEPT !.gantt = g, !.elapsed = clock])
          ELSE LET w == clock - p.ArrivalTime - priorityPenalty(p)
                   t == clock - p.ArrivalTime
               IN RRLoop(Tail(q), quant,
                         [gantt |-> g, elapsed |-> clock, wait |-> st.wait + w,
                          turn |-> st.turn + t,
                          schedule |-> Append(st.schedule, RRRow(p, w, t, clock))])

RRRun(list, quant) ==
  LET sorted == SortSlice(list, "arrival")
      st == RRLoop(sorted, quant,
                   [gantt |-> <<>>, elapsed |-> 0, wait |-> 0, turn |-> 0,
                    schedule |-> MakeSchedule(Len(sorted))])
  IN Report("RR", st.gantt, st.schedule, <<st.wait, Len(sorted)>>,
            <<st.turn, Len(sorted)>>, <<Len(sorted), st.elapsed>>)

\* The report of policy `name` called on list (quant is used by RR only).
Run(name, list, quant) ==
  CASE name = "FCFS" -> FCFSRun(list)
    [] name = "SJF" -> SJFRun(list)
    [] name = "SJFPriority" -> SJFPriorityRun(list)
    [] name = "RR" -> RRRun(list, quant)

\* ======================================================== properties
Range(s) == {s[k] : k \in 1..Len(s)}

Last(s) == s[Len(s)]

\* The process of the loaded list that carries id pid.
ProcByID(pid) == CHOOSE p \in Range(input) : p.ProcessID = pid

RECURSIVE SliceSum(_, _)
SliceSum(g, pid) ==
  IF Len(g) = 0 THEN 0
  ELSE SliceSum(Tail(g), pid)
       + (IF Head(g).PID = pid THEN Head(g).Stop - Head(g).Start ELSE 0)

RECURSIVE SumBursts(_, _)
SumBursts(list, k) ==
  IF k = 0 THEN 0 ELSE SumBursts(list, k - 1) + list[k].BurstDuration

PIDs(g) == [k \in 1..Len(g) |-> g[k].PID]

\* The policy has handed its report to the sink and returned.
Returned == pc = "returned"

\* The loop of the policy is running or has just finished.
InPolicy(name) == policy = name /\ pc \in {"loop", "returned"}

\* The whole program has finished.
Terminated == Returned /\ (entry # "main" \/ policy = Last(MainOrder))

\* C1: when a policy returns, for every input process the durations
\* (Stop - Start) of the Gantt slices carrying its PID add up to its original
\* burstDuration.
C1_SliceDurationsSumToBurst ==
  Returned =>
    \A p \in Range(input) : SliceSum(gantt, p.ProcessID) = p.BurstDuration

\* C2: the rows handed to outputSchedule are exactly one row per input
\* process: as many rows as processes, and every process id in exactly one row.
C2_OneRowPerProcess ==
  Returned =>
    LET rows == Last(sink).rows
    IN /\ Len(rows) = Len(input)
       /\ \A p \in Range(input) :
            Cardinality({k \in 1..Len(rows) :
                           /\ rows[k] # NilRow
                           /\ rows[k][1] = FormatInt(p.ProcessID)}) = 1

\* C3: a policy call leaves the caller's process list as it was loaded: same
\* processes, same order, same field values.
C3_CallerListUnchanged == Returned => processes = passed

\* C4: FCFSSchedule records for the process at index i the wait
\* max(0, S_i - arrivalTime_i), S_i being the sum of the bursts before it; for
\* bursts 24,3,3 arriving at 0 the waits are 0, 24, 27 and their total is 51.
C4_FCFSWait ==
  (policy = "FCFS" /\ Returned) =>
    /\ \A k \in 1..Len(passed) :
         LET s == SumBursts(passed, k - 1) - passed[k].ArrivalTime
         IN schedule[k][5] = FormatInt(IF s > 0 THEN s ELSE 0)
    /\ passed = FCFSFixture =>
         /\ [k \in 1..3 |-> schedule[k][5][2]] = <<0, 24, 27>>
         /\ totalWait = 51

\* Position of the process with id pid in the caller's (sorted) list.
PosInProcesses(pid) == CHOOSE k \in 1..Len(processes) : processes[k].ProcessID = pid

\* C5: SJFSchedule always dispatches a process of minimum burst among all
\* remaining ones, whatever their arrival times and the clock: the Gantt PIDs
\* come in non-decreasing burst order, equal bursts in the order of the
\* arrival-sorted list, no remaining process is shorter than a dispatched one,
\* and the input (1,6,2),(2,8,0),(3,7,4),(4,3,6) gives the order 4, 1, 3, 2.
C5_SJFGlobalMinBurst ==
  InPolicy("SJF") =>
    /\ \A a \in 1..Len(processes), b \in 1..Len(processes) :
         a < b => processes[a].ArrivalTime <= processes[b].ArrivalTime
    /\ \A a \in 1..Len(gantt), b \in 1..Len(gantt) :
         a < b =>
           LET pa == ProcByID(gantt[a].PID)
               pb == ProcByID(gantt[b].PID)
           IN /\ pa.BurstDuration <= pb.BurstDuration
              /\ pa.BurstDuration = pb.BurstDuration =>
                   PosInProcesses(pa.ProcessID) < PosInProcesses(pb.ProcessID)
    /\ \A a \in 1..Len(gantt) : \A r \in Range(remainingProcesses) :
         ProcByID(gantt[a].PID).BurstDuration <= r.BurstDuration
    /\ (passed = SJFFixture /\ Returned) => PIDs(gantt) = <<4, 1, 3, 2>>

\* SJFSchedule finished the fixture, whose shortest process arrives last.
C5_Witness ==
  /\ policy = "SJF" /\ Returned
  /\ passed = SJFFixture
  /\ Len(gantt) = 4
  /\ gantt[1].PID = 4

\* A step of SJFPrioritySchedule that dispatches a process.
PriorityDispatchStep ==
  /\ policy = "SJFPriority" /\ pc = "loop" /\ pc' = "loop"
  /\ Len(gantt') = Len(gantt) + 1

\* C6: every slice SJFPrioritySchedule emits starts at the clock of the
\* selection and belongs to a remaining process that has arrived by then, has
\* the minimum burst among the remaining arrived processes and, among those of
\* that burst, the minimum priority value.
C6_PrioritySelection ==
  [][PriorityDispatchStep =>
       LET sl == Last(gantt')
           arrived == {q \in Range(remainingProcesses) : q.ArrivalTime <= currTime}
       IN /\ sl.Start = currTime
          /\ \E p \in arrived :
               /\ p.ProcessID = sl.PID
               /\ sl.Stop = sl.Start + p.BurstDuration
               /\ \A q \in arrived :
                    /\ p.BurstDuration <= q.BurstDuration
                    /\ q.BurstDuration = p.BurstDuration => p.Priority <= q.Priority]_vars

\* SJFPrioritySchedule dispatched a process while a shorter one had not
\* arrived yet and an arrived one of the same burst had a larger priority value.
C6_Witness ==
  /\ InPolicy("SJFPriority")
  /\ Len(gantt) >= 1
  /\ LET sl == Last(gantt)
         p == ProcByID(sl.PID)
     IN /\ \E r \in Range(remainingProcesses) :
             r.BurstDuration < p.BurstDuration /\ r.ArrivalTime > sl.Start
        /\ \E r \in Range(remainingProcesses) :
             /\ r.BurstDuration = p.BurstDuration
             /\ r.ArrivalTime <= sl.Start
             /\ r.Priority > p.Priority

\* An iteration of SJFPrioritySchedule that finds no arrived process.
NoneArrived ==
  /\ policy = "SJFPriority" /\ pc = "loop"
  /\ Len(remainingProcesses) > 0
  /\ \A q \in Range(remainingProcesses) : q.ArrivalTime > currTime

\* C7: an iteration of SJFPrioritySchedule that finds the working set
\* non-empty and nobody arrived sets the clock to the minimum arrival time of
\* the remaining processes, emits no slice and no row, keeps the working set,
\* and leaves at least one process arrived for the next iteration.
C7_IdleSkip ==
  [][NoneArrived =>
       /\ \E q \in Range(remainingProcesses) : currTime' = q.ArrivalTime
       /\ \A q \in Range(remainingProcesses) : currTime' <= q.ArrivalTime
       /\ gantt' = gantt
       /\ schedule' = schedule
       /\ remainingProcesses' = remainingProcesses
       /\ pc' = "loop"
       /\ \E q \in Range(remainingProcesses') : q.ArrivalTime <= currTime']_vars

\* SJFPrioritySchedule has skipped idle time before its first dispatch.
C7_Witness ==
  /\ policy = "SJFPriority" /\ pc = "loop"
  /\ gantt = <<>>
  /\ Len(remainingProcesses) >= 2
  /\ currTime >= 1
  /\ \E q \in Range(remainingProcesses) : q.ArrivalTime = currTime
  /\ \E q \in Range(remainingProcesses) : q.ArrivalTime > currTime

\* Consecutive slices of g touch, and g starts at 0.
Contiguous(g) ==
  /\ Len(g) > 0 => g[1].Start = 0
  /\ \A k \in 1..(Len(g) - 1) : g[k + 1].Start = g[k].Stop

\* An iteration of RRSchedule's loop is about to run.
RRLoopStep == policy = "RR" /\ pc = "loop" /\ Len(queue) > 0

\* C8: with quantum >= 1 an iteration of RRSchedule takes the head of the
\* queue, emits [elapsed, elapsed + min(remaining burst, quantum)], advances
\* elapsed and lowers the remaining burst by that amount and puts the process
\* back at the tail iff burst remains; so the Gantt starts at 0, every slice
\* starts where the previous one stops, and quantum 2 on (1,5,0),(2,3,0) gives
\* 1[0,2], 2[2,4], 1[4,6], 2[6,7], 1[7,8].
C8_RRQuantumSlicing ==
  /\ [](InPolicy("RR") =>
          /\ quantum >= 1
          /\ Contiguous(gantt)
          /\ (passed = RRFixture /\ quantum = 2 /\ Returned) =>
               gantt = <<TimeSlice(1, 0, 2), TimeSlice(2, 2, 4), TimeSlice(1, 4, 6),
                         TimeSlice(2, 6, 7), TimeSlice(1, 7, 8)>>)
  /\ [][RRLoopStep =>
          LET h == Head(queue)
              ran == IF h.BurstDuration <= quantum THEN h.BurstDuration ELSE quantum
              left == h.BurstDuration - ran
          IN /\ gantt' = Append(gantt, TimeSlice(h.ProcessID, elapsed, elapsed + ran))
             /\ elapsed' = elapsed + ran
             /\ IF left > 0
                THEN queue' = Append(Tail(queue), [h EXCEPT !.BurstDuration = left])
                ELSE queue' = Tail(queue)]_vars

\* RRSchedule finished the fixture with quantum 2, after re-enqueueing both
\* processes.
C8_Witness ==
  /\ policy = "RR" /\ Returned
  /\ passed = RRFixture
  /\ quantum = 2
  /\ Len(gantt) = 5

\* C9: RRSchedule records a row for a process exactly in the iteration in
\* which its remaining burst reaches 0, with turnaround = elapsed - arrivalTime
\* (elapsed after that slice) and wait = turnaround - (priority - 1) * 5; any
\* other iteration records nothing.
C9_RRCompletionRow ==
  [][RRLoopStep =>
       LET h == Head(queue)
           ran == IF h.BurstDuration <= quantum THEN h.BurstDuration ELSE quantum
           t == elapsed' - h.ArrivalTime
       IN IF h.BurstDuration - ran = 0
          THEN /\ Len(schedule') = Len(schedule) + 1
               /\ SubSeq(schedule', 1, Len(schedule)) = schedule
               /\ Last(schedule')[1] = FormatInt(h.ProcessID)
               /\ Last(schedule')[6] = FormatFloat(t)
               /\ Last(schedule')[5] = FormatFloat(t - (h.Priority - 1) * 5)
               /\ turn' = turn + t
               /\ wait' = wait + (t - (h.Priority - 1) * 5)
          ELSE /\ schedule' = schedule
               /\ turn' = turn
               /\ wait' = wait]_vars

\* RRSchedule recorded the row of a process that needed more than one slice
\* and whose priority penalty is not zero.
C9_Witness ==
  /\ InPolicy("RR")
  /\ \E k \in 1..Len(schedule) :
       /\ schedule[k] # NilRow
       /\ schedule[k][5][2] # schedule[k][6][2]
       /\ Cardinality({j \in 1..Len(gantt) : FormatInt(gantt[j].PID) = schedule[k][1]}) > 1

\* Sum of the remaining bursts of the processes of a list.
RECURSIVE TotalBurst(_)
TotalBurst(list) ==
  IF Len(list) = 0 THEN 0 ELSE Head(list).BurstDuration + TotalBurst(Tail(list))

\* C10: every policy's loop terminates: the program reaches its end; an
\* iteration of SJFSchedule removes one process; an iteration of
\* SJFPrioritySchedule removes one process or moves the clock forward to the
\* arrival of a remaining process, after which some process has arrived; an
\* iteration of RRSchedule with quantum >= 1 strictly lowers the remaining
\* burst of the process it dequeues.
C10_Termination ==
  /\ <>Terminated
  /\ [][(policy = "SJF" /\ pc = "loop" /\ Len(remainingProcesses) > 0) =>
          Len(remainingProcesses') = Len(remainingProcesses) - 1]_vars
  /\ [][(policy = "SJFPriority" /\ pc = "loop" /\ Len(remainingProcesses) > 0) =>
          \/ Len(remainingProcesses') = Len(remainingProcesses) - 1
          \/ /\ remainingProcesses' = remainingProcesses
             /\ currTime' > currTime
             /\ \E q \in Range(remainingProcesses) : q.ArrivalTime = currTime'
             /\ \E q \in Range(remainingProcesses') : q.ArrivalTime <= currTime']_vars
  /\ [][RRLoopStep =>
          /\ TotalBurst(queue') < TotalBurst(queue)
          /\ \/ queue' = Tail(queue)
             \/ /\ Len(queue') = Len(queue)
                /\ Last(queue').ProcessID = Head(queue).ProcessID
                /\ Last(queue').BurstDuration < Head(queue).BurstDuration
                /\ Last(queue').BurstDuration > 0]_vars

\* main ran all four policies to their end on a list with an idle start.
C10_Witness ==
  /\ Terminated
  /\ entry = "main"
  /\ Len(sink) = 4
  /\ Len(input) >= 2
  /\ \A p \in Range(input) : p.ArrivalTime > 0

\* The largest Stop among the slices of a non-empty Gantt sequence.
MaxStop(g) == CHOOSE m \in {g[k].Stop : k \in 1..Len(g)} :
                \A k \in 1..Len(g) : g[k].Stop <= m

\* The divisor of the throughput the policy handed to outputSchedule.
Divisor == Last(sink).throughput[2]

\* C11: the throughput divisor of SJFSchedule, SJFPrioritySchedule and
\* RRSchedule is the time of the last completion, the largest Stop among the
\* slices the policy emitted; FCFSSchedule's divisor is the completion value
\* recorded in the row of the last input process.
C11_DivisorIsLastCompletion ==
  (Returned /\ Len(gantt) > 0) =>
    IF policy = "FCFS"
    THEN FormatInt(Divisor) = schedule[Len(passed)][7]
    ELSE Divisor = MaxStop(gantt)

\* C12: the Gantt sequence a policy hands over is chronological and never
\* overlaps: every slice has Stop >= Start and stops no later than the next
\* slice starts.
C12_GanttChronological ==
  Returned =>
    LET g == Last(sink).gantt
    IN /\ \A k \in 1..Len(g) : g[k].Stop >= g[k].Start
       /\ \A k \in 1..(Len(g) - 1) : g[k].Stop <= g[k + 1].Start

\* C13: a policy's output is determined by its arguments alone: any run of
\* a policy, whatever was run before it, hands over exactly the Gantt
\* sequence, rows, wait and turnaround totals and throughput divisor that a
\* run on a fresh copy of the same list (and quantum) produces.
C13_Deterministic ==
  Returned => Last(sink) = Run(policy, passed, quantum)

\* main has run SJFPrioritySchedule and RRSchedule after other policies left
\* their totals behind, and RRSchedule re-enqueued a process.
C13_Witness ==
  /\ entry = "main" /\ Terminated
  /\ Len(sink) = 4
  /\ Len(input) >= 2
  /\ sink[2].turnaround[1] # 0
  /\ sink[3].turnaround[1] # sink[2].turnaround[1]
  /\ sink[4] = Run("RR", passed, MainQuantum)
  /\ Len(sink[4].gantt) > Len(input)

\* A step of SJFSchedule or SJFPrioritySchedule that emits a slice.
SJFEmitStep ==
  /\ policy \in {"SJF", "SJFPriority"} /\ pc = "loop" /\ pc' = "loop"
  /\ Len(gantt') = Len(gantt) + 1

\* C14: after an iteration of SJFSchedule or SJFPrioritySchedule that emits
\* a slice, the clock equals the Stop of that slice: it advanced by the burst
\* of the process just run.
C14_ClockAdvancesByOwnBurst ==
  [][SJFEmitStep => currTime' = Last(gantt').Stop]_vars

\* C15: run from main, each policy hands over the report it produces when
\* called alone on the list as loaded; RRSchedule in particular queues
\* processes of equal arrival in their loaded order.
C15_MainOrderSameAsAlone ==
  (entry = "main" /\ Returned) =>
    Last(sink) = Run(policy, input, MainQuantum)

\* The rows of a table that belong to a process (the nil rows left out).
RealRows(rows) == {k \in 1..Len(rows) : rows[k] # NilRow}

\* C16: in SJFSchedule and SJFPrioritySchedule no slice starts before its
\* process arrives, so every recorded wait (Start - arrivalTime) is >= 0; in
\* SJFSchedule a slice starts at the larger of the clock before the
\* iteration and the arrival time of the selected process.
C16_NoStartBeforeArrival ==
  /\ []((InPolicy("SJF") \/ InPolicy("SJFPriority")) =>
          /\ \A k \in 1..Len(gantt) :
               gantt[k].Start >= ProcByID(gantt[k].PID).ArrivalTime
          /\ Cardinality(RealRows(schedule)) = Len(gantt)
          /\ \A k \in 1..Len(gantt) :
               LET row == schedule[Len(passed) + k]
               IN /\ row[1] = FormatInt(gantt[k].PID)
                  /\ row[5][2] = gantt[k].Start - ProcByID(gantt[k].PID).ArrivalTime
                  /\ row[5][2] >= 0)
  /\ [][(SJFEmitStep /\ policy = "SJF") =>
          LET sl == Last(gantt')
              a == ProcByID(sl.PID).ArrivalTime
          IN sl.Start = IF a > currTime THEN a ELSE currTime]_vars

\* SJFSchedule dispatched a process that arrived after the clock it found,
\* so its slice starts at its arrival.
C16_Witness ==
  /\ InPolicy("SJF")
  /\ Len(gantt) >= 2
  /\ gantt[2].Start = ProcByID(gantt[2].PID).ArrivalTime
  /\ gantt[2].Start > gantt[1].Stop

\* C17: no slice RRSchedule emits starts before its process arrives, and
\* every turnaround it records is >= 0.
C17_RRRespectsArrival ==
  InPolicy("RR") =>
    /\ \A k \in 1..Len(gantt) :
         gantt[k].Start >= ProcByID(gantt[k].PID).ArrivalTime
    /\ \A k \in RealRows(schedule) : schedule[k][6][2] >= 0

\* Start + burst - arrival of the process of slice k, summed over 1..k.
RECURSIVE TurnaroundSum(_, _)
TurnaroundSum(g, k) ==
  IF k = 0 THEN 0
  ELSE TurnaroundSum(g, k - 1)
       + (g[k].Start + ProcByID(g[k].PID).BurstDuration
          - ProcByID(g[k].PID).ArrivalTime)

\* W_k: the waits (Start - arrival) of the first k dispatched processes.
RECURSIVE WaitUpTo(_, _)
WaitUpTo(g, k) ==
  IF k = 0 THEN 0
  ELSE WaitUpTo(g, k - 1) + (g[k].Start - ProcByID(g[k].PID).ArrivalTime)

\* W_1 + ... + W_k.
RECURSIVE WaitTotals(_, _)
WaitTotals(g, k) ==
  IF k = 0 THEN 0 ELSE WaitTotals(g, k - 1) + WaitUpTo(g, k)

\* C18: in SJFSchedule and SJFPrioritySchedule the k-th dispatch, at clock
\* c, adds (c + burst - arrival) - W_k to turn, W_k being the wait total
\* including this process's own wait; so turn is the sum of
\* (Start_k + burst_k - arrival_k) minus the sum of the W_k.
C18_CumulativeTurnaround ==
  /\ []((InPolicy("SJF") \/ InPolicy("SJFPriority")) =>
          /\ waitTime = WaitUpTo(gantt, Len(gantt))
          /\ turn = TurnaroundSum(gantt, Len(gantt)) - WaitTotals(gantt, Len(gantt)))
  /\ [][SJFEmitStep =>
          LET sl == Last(gantt')
              p == ProcByID(sl.PID)
              w == waitTime + (sl.Start - p.ArrivalTime)
          IN /\ waitTime' = w
             /\ turn' = turn + (sl.Start + p.BurstDuration - p.ArrivalTime) - w]_vars

\* SJFPrioritySchedule finished three processes of which two had to wait, so
\* the running wait total was subtracted more than once.
C18_Witness ==
  /\ policy = "SJFPriority" /\ Returned
  /\ Len(gantt) = 3
  /\ WaitUpTo(gantt, 2) > 0
  /\ WaitUpTo(gantt, 3) > WaitUpTo(gantt, 2)
  /\ turn < TurnaroundSum(gantt, 3) - WaitUpTo(gantt, 3)

\* C19: the burst field of every row a policy hands over is the original
\* burstDuration of the row's process; RRSchedule's rows too.
C19_RowCarriesOriginalBurst ==
  Returned =>
    LET rows == Last(sink).rows
    IN \A k \in RealRows(rows) :
         rows[k][3] = FormatInt(ProcByID(rows[k][1][2]).BurstDuration)

====
